---- MODULE Spec2Model ----
(***************************************************************************)
(* Model of .github/workflows/scripts/post_to_x.js.                        *)
(*                                                                         *)
(* The file holds five successive scripts, each with its own imports and   *)
(* its own main().  They are modelled as variants of one run:              *)
(*   "v1"  lines    1-166   twitter-api-v2 client, Skipped status, id sort *)
(*   "v3"  lines  302-635   own OAuth1 signer, DRY_RUN, whole-row update   *)
(*   "v4"  lines  637-863   oauth-1.0a, first due row in store order       *)
(*   "v5"  lines  865-1151  tab check, earliest due row, per-cell update   *)
(* The script of lines 168-300 is left out: its postToX redeclares its     *)
(* parameter `text` with const (line 259), so the script does not parse    *)
(* and never reads the sheet or calls the posting API.                     *)
(*                                                                         *)
(* The sheet is a header row (a set of column names) and a sequence of     *)
(* data rows; a data row is a function from column name to cell text.      *)
(* Data row i (1-based) is sheet row i + 1.                                *)
(***************************************************************************)
EXTENDS Integers, Sequences, FiniteSets, TLC

VARIABLES
    variant,    \* which script runs (fixed for a behaviour)
    dryRun,     \* DRY_RUN in the environment (read by v3 alone, line 322)
    headers,    \* the header row of the sheet, trimmed
    sheet,      \* the data rows of the sheet
    clock,      \* the current instant
    pc,         \* per run: position in main()
    now,        \* per run: the instant main() compares against
    snap,       \* per run: the data rows as fetched
    chosen,     \* per run: index of the selected data row, 0 if none
    cur,        \* per run: the row re-read by updateRow (v1, v4)
    tweetId,    \* per run: identifier returned by the posting API, "" if none
    result,     \* per run: how the run ended
    exit,       \* per run: process exit code
    apiCalls,   \* per run: posting API requests sent in this run
    writes,     \* per run: sheet writes issued in this run
    overlapped, \* per run: another run was active while this one was
    started,    \* number of runs started so far
    calls,      \* per data row: posting API requests sent for it, all runs
    accepted,   \* per data row: 2xx answers of the posting API, all runs
    unrecorded, \* per data row: 2xx answers no status write followed
    answer,     \* per run: what the posting API answered, "none" if not called
    edits,      \* number of cells an editor of the sheet has changed
    signed,     \* the last call of the OAuth1 signer: inputs and outputs
    tabExists,  \* the spreadsheet has a tab of the name in GOOGLE_SHEET_TAB
    missing,    \* the settings absent from the environment: "none", "store"
                \* (a GOOGLE_* variable) or "api" (an X_* variable)
    reads       \* per run: sheet reads issued by the fetch (metadata, range)

vars == <<variant, dryRun, headers, sheet, clock, pc, now, snap, chosen, cur,
          tweetId, result, exit, apiCalls, writes, overlapped, started,
          calls, accepted, unrecorded, answer, edits, signed, tabExists,
          missing, reads>>

-----------------------------------------------------------------------------
(* Bounds *)

MaxRows == 2

MaxRuns == 2

MaxEdits == 1

MaxSigns == 2

Variants == {"v1", "v3", "v4", "v5"}

Runs == {1, 2}

-----------------------------------------------------------------------------
(* String primitives, tabulated over the texts the model uses. *)

\* String.prototype.trim
Trim(s) ==
    CASE s = " pending " -> "pending"
      [] OTHER           -> s

\* String.prototype.toLowerCase
ToLowerCase(s) ==
    CASE s = "Pending"          -> "pending"
      [] s = "Posted"           -> "posted"
      [] s = "Skipped"          -> "skipped"
      [] s = "Status"           -> "status"
      [] s = "Post Text"        -> "post text"
      [] s = "Publish Date"     -> "publish date"
      [] s = "Time (UTC)"       -> "time (utc)"
      [] s = "Tweet ID"         -> "tweet id"
      [] s = "Posted At"        -> "posted at"
      [] s = "Posted At (UTC)"  -> "posted at (utc)"
      [] OTHER                  -> s

\* String.prototype.split(":")
SplitColon(s) ==
    CASE s = "10:00"    -> <<"10", "00">>
      [] s = "10:00:00" -> <<"10", "00", "00">>
      [] OTHER          -> <<s>>

\* Number(cell): "" converts to 0, a non-numeric text to NaN
Number(s) ==
    CASE s = "1" -> [ok |-> TRUE, n |-> 1]
      [] s = "2" -> [ok |-> TRUE, n |-> 2]
      [] s = ""  -> [ok |-> TRUE, n |-> 0]
      [] OTHER   -> [ok |-> FALSE, n |-> 0]

\* The ISO texts new Date() accepts, with their instants; any other text
\* gives an Invalid Date.
ValidIso ==
    [iso \in {"2026-01-01T10:00:00Z", "2026-01-02T10:00:00Z"} |->
        IF iso = "2026-01-01T10:00:00Z" THEN 1 ELSE 2]

\* new Date(iso).getTime(): ok = FALSE stands for NaN
DateParse(iso) ==
    IF iso \in DOMAIN ValidIso THEN [ok |-> TRUE, n |-> ValidIso[iso]]
                               ELSE [ok |-> FALSE, n |-> 0]

\* The instants at which a run may start: those of the dates in use.
ClockValues == {ValidIso[iso] : iso \in DOMAIN ValidIso}

\* new Date().toISOString() at instant c
ToISOString(c) ==
    CASE c = 1 -> "2026-01-01T10:00:00.000Z"
      [] OTHER -> "2026-01-02T10:00:00.000Z"

-----------------------------------------------------------------------------
(* Header and cell access *)

\* row[key] ?? "" / row[idx] || "": a missing cell reads as ""
Cell(row, h) == IF h \in DOMAIN row THEN row[h] ELSE ""

\* headers.findIndex(h => h.toLowerCase() === name.toLowerCase()); "" if none
findHeaderIndex(name) ==
    IF \E h \in headers : ToLowerCase(h) = ToLowerCase(name)
    THEN CHOOSE h \in headers : ToLowerCase(h) = ToLowerCase(name)
    ELSE ""

\* The column a script reads or writes under `name`: v5 keys rows by the exact
\* header text (r["Status"], headers.indexOf), the others match
\* case-insensitively.
Col(v, name) ==
    IF v = "v5" THEN (IF name \in headers THEN name ELSE "")
                ELSE findHeaderIndex(name)

Field(v, row, name) == Cell(row, Col(v, name))

-----------------------------------------------------------------------------
(* Date parsing, one operator per script *)

\* v1 parseUtcDateTime (lines 21-30): null (ok = FALSE) when invalid
parseUtcDateTime1(publishDate, timeUtc) ==
    LET t    == Trim(timeUtc)
        time == IF Len(t) = 5 THEN t \o ":00" ELSE t
    IN  DateParse(publishDate \o "T" \o time \o "Z")

\* v3 toIsoUtcFromColumns (lines 375-393): "" stands for null
toIsoUtcFromColumns(publishDate, timeUtc) ==
    LET d     == Trim(publishDate)
        t     == Trim(timeUtc)
        parts == SplitColon(t)
    IN  IF d = "" \/ t = "" THEN ""
        ELSE IF Len(parts) < 2 THEN ""
        ELSE d \o "T" \o parts[1] \o ":" \o parts[2] \o ":"
               \o (IF Len(parts) >= 3 THEN parts[3] ELSE "00") \o "Z"

\* v4 parseUtcDateTime (lines 669-680): ok = FALSE stands for the thrown Error
parseUtcDateTime4(publishDate, timeUtc) ==
    DateParse(Trim(publishDate) \o "T" \o Trim(timeUtc) \o ":00Z")

\* v5 parseUtcDueDate (lines 892-909): null (ok = FALSE) when empty or invalid
parseUtcDueDate(row) ==
    LET d    == Trim(Cell(row, "Publish Date"))
        t    == Trim(Cell(row, "Time (UTC)"))
        time == IF Len(t) = 5 THEN t \o ":00" ELSE t
    IN  IF d = "" \/ t = "" THEN [ok |-> FALSE, n |-> 0]
        ELSE DateParse(d \o "T" \o time \o "Z")

\* The instant a script reads from a row.
Scheduled(v, row) ==
    CASE v = "v1" -> parseUtcDateTime1(Field(v, row, "Publish Date"),
                                       Field(v, row, "Time (UTC)"))
      [] v = "v3" -> DateParse(toIsoUtcFromColumns(Field(v, row, "Publish Date"),
                                                   Field(v, row, "Time (UTC)")))
      [] v = "v4" -> parseUtcDateTime4(Field(v, row, "Publish Date"),
                                       Field(v, row, "Time (UTC)"))
      [] OTHER    -> parseUtcDueDate(row)

\* Mutant of IsPending: the status filter is left out.
IsPendingAlways(v, row) == TRUE

\* (status || "").trim().toLowerCase() === "pending"
IsPending(v, row) == ToLowerCase(Trim(Field(v, row, "Status"))) = "pending"

\* the trimmed post text
PostText(v, row) == Trim(Field(v, row, "Post Text"))

\* v3 isDue (lines 399-419)
isDue(row, nowv) ==
    LET iso == toIsoUtcFromColumns(Field("v3", row, "Publish Date"),
                                   Field("v3", row, "Time (UTC)"))
    IN  /\ PostText("v3", row) # ""
        /\ IsPending("v3", row)
        /\ iso # ""
        /\ DateParse(iso).ok
        /\ DateParse(iso).n <= nowv

-----------------------------------------------------------------------------
(* Array.prototype.sort as Node runs it: for fewer than 64 elements, find   *)
(* the first run (reversed when strictly descending), then binary insertion *)
(* of the rest.  A comparator result of NaN counts as 0.                    *)

\* The comparators: v1 (line 93) a.dt - b.dt || a.id - b.id; v3 (line 574)
\* and v5 (line 1112) the instants alone.
Compare(v, a, b) ==
    IF a.dt # b.dt THEN a.dt - b.dt
    ELSE IF v # "v1" THEN 0
    ELSE IF ~a.id.ok \/ ~b.id.ok THEN 0
    ELSE a.id.n - b.id.n

RECURSIVE RunEnd(_, _, _, _)
RunEnd(v, s, k, desc) ==
    IF k > Len(s) THEN k - 1
    ELSE IF desc /\ Compare(v, s[k], s[k-1]) >= 0 THEN k - 1
    ELSE IF ~desc /\ Compare(v, s[k], s[k-1]) < 0 THEN k - 1
    ELSE RunEnd(v, s, k + 1, desc)

Reverse(s) == [k \in 1..Len(s) |-> s[Len(s) + 1 - k]]

RECURSIVE BinarySearch(_, _, _, _, _)
BinarySearch(v, s, pivot, left, right) ==
    IF left >= right THEN left
    ELSE LET mid == left + ((right - left) \div 2)
         IN  IF Compare(v, pivot, s[mid + 1]) < 0
             THEN BinarySearch(v, s, pivot, left, mid)
             ELSE BinarySearch(v, s, pivot, mid + 1, right)

RECURSIVE BinaryInsertionSort(_, _, _)
BinaryInsertionSort(v, s, start) ==
    IF start > Len(s) THEN s
    ELSE LET pivot == s[start]
             sorted == SubSeq(s, 1, start - 1)
             at     == BinarySearch(v, sorted, pivot, 0, start - 1)
         IN  BinaryInsertionSort(v,
                 SubSeq(sorted, 1, at) \o <<pivot>>
                     \o SubSeq(sorted, at + 1, start - 1)
                     \o SubSeq(s, start + 1, Len(s)),
                 start + 1)

Sort(v, s) ==
    IF Len(s) < 2 THEN s
    ELSE LET desc == Compare(v, s[2], s[1]) < 0
             run  == RunEnd(v, s, 3, desc)
             made == IF desc THEN Reverse(SubSeq(s, 1, run)) \o SubSeq(s, run + 1, Len(s))
                             ELSE s
         IN  BinaryInsertionSort(v, made, run + 1)

-----------------------------------------------------------------------------
(* Selection *)

\* The rows that pass a script's filter, as sort items in store order.
IsCandidate(v, row, nowv) ==
    CASE v = "v1" -> /\ IsPending(v, row)
                     /\ Scheduled(v, row).ok
                     /\ Scheduled(v, row).n <= nowv
      [] v = "v3" -> isDue(row, nowv)
      [] v = "v4" -> /\ IsPending(v, row)
                     /\ PostText(v, row) # ""
                     /\ Scheduled(v, row).ok
                     /\ Scheduled(v, row).n <= nowv
      [] OTHER    -> /\ IsPending(v, row)
                     /\ PostText(v, row) # ""
                     /\ Scheduled(v, row).ok
                     /\ Scheduled(v, row).n <= nowv

Item(v, rows, i) ==
    [i |-> i, dt |-> Scheduled(v, rows[i]).n, id |-> Number(Field(v, rows[i], "id"))]

\* v1 lines 84-93, v3 lines 563-574, v5 lines 1102-1112: map and filter
\* build the array once, sort then orders it.
Candidates(v, rows, nowv) ==
    CHOOSE sorted \in
        {Sort(v, due) :
            due \in {SelectSeq([i \in 1..Len(rows) |-> Item(v, rows, i)],
                               LAMBDA x : IsCandidate(v, rows[x.i], nowv))}} :
        TRUE

\* v4 lines 816-836: the first due row in store order; parseUtcDateTime
\* throws on the first pending row with text whose date does not parse.
RECURSIVE PickV4(_, _, _)
PickV4(rows, r, nowv) ==
    IF r > Len(rows) THEN [kind |-> "nothingdue", i |-> 0]
    ELSE IF ~IsPending("v4", rows[r]) THEN PickV4(rows, r + 1, nowv)
    ELSE IF PostText("v4", rows[r]) = "" THEN PickV4(rows, r + 1, nowv)
    ELSE IF ~Scheduled("v4", rows[r]).ok THEN [kind |-> "throw", i |-> 0]
    ELSE IF Scheduled("v4", rows[r]).n <= nowv THEN [kind |-> "picked", i |-> r]
    ELSE PickV4(rows, r + 1, nowv)

\* v1 line 75, v4 headerIndex (lines 714-718, 806-809)
RequiredColumns(v) ==
    CASE v = "v1" -> {"Publish Date", "Time (UTC)", "Post Text", "Status", "id"}
      [] v = "v4" -> {"Publish Date", "Time (UTC)", "Post Text", "Status"}
      [] OTHER    -> {}

\* From the fetched rows to the row main() goes on with.
Select(v, rows, nowv) ==
    IF Len(rows) = 0 THEN [kind |-> "norows", i |-> 0]
    ELSE IF \E c \in RequiredColumns(v) : Col(v, c) = ""
         THEN [kind |-> "throw", i |-> 0]
    ELSE IF v = "v4" THEN PickV4(rows, 1, nowv)
    ELSE LET cands == Candidates(v, rows, nowv)
         IN  IF Len(cands) = 0 THEN [kind |-> "nothingdue", i |-> 0]
             ELSE [kind |-> "picked", i |-> cands[1].i]

-----------------------------------------------------------------------------
(* The update a run writes back *)

\* The updates object main() builds: v1 lines 106-109 and 126-130, v3 lines
\* 611-618, v4 lines 848-853, v5 lines 1138-1142.
Updates(v, text, id, at) ==
    CASE v = "v1" ->
           IF text = ""
           THEN [k \in {"Status", "Posted At"} |->
                    IF k = "Status" THEN "Skipped" ELSE at]
           ELSE [k \in {"Status", "Posted At", "Tweet ID"} |->
                    IF k = "Status" THEN "Posted"
                    ELSE IF k = "Posted At" THEN at ELSE id]
      [] v = "v3" ->
           [k \in {"Status"} \cup
                  (IF findHeaderIndex("Posted At (UTC)") # ""
                   THEN {"Posted At (UTC)"} ELSE {}) |->
                IF k = "Status" THEN "Posted" ELSE at]
      [] v = "v4" ->
           [k \in {"Status"} \cup
                  (IF findHeaderIndex("tweet_id") # "" THEN {"tweet_id"} ELSE {}) \cup
                  (IF findHeaderIndex("posted_at") # "" THEN {"posted_at"} ELSE {}) |->
                IF k = "Status" THEN "Posted"
                ELSE IF k = "tweet_id" THEN id ELSE at]
      [] OTHER ->
           [k \in {"Status", "Tweet ID", "Posted At (UTC)"} |->
                IF k = "Status" THEN "Posted"
                ELSE IF k = "Tweet ID" THEN id ELSE at]

\* Mutant of ApplyUpdates: the updates never reach the row.
ApplyUpdatesLost(v, row, upd) == row

\* The row after the named cells are set: v1 updateRow (lines 150-153), v3
\* updateRow (lines 533-536), v4 updateRow (lines 733-736), v5
\* updateRowByHeader (lines 1025-1032).  A name with no column is skipped.
ApplyUpdates(v, row, upd) ==
    [h \in DOMAIN row |->
        IF \E k \in DOMAIN upd : Col(v, k) = h
        THEN upd[CHOOSE k \in DOMAIN upd : Col(v, k) = h]
        ELSE row[h]]

-----------------------------------------------------------------------------
(* Initial sheets *)

\* The header rows the model starts from: every column any script names,
\* the required columns alone, and the v5 columns spelled in lower case.
Schemas ==
    { {"Publish Date", "Time (UTC)", "Post Text", "Status", "id",
       "Tweet ID", "Posted At (UTC)", "Posted At", "tweet_id", "posted_at"},
      {"Publish Date", "Time (UTC)", "Post Text", "Status", "id"},
      {"publish date", "time (utc)", "post text", "status", "id",
       "tweet id", "posted at (utc)"} }

Base == [status |-> "Pending", text |-> "hello", date |-> "2026-01-01",
         time |-> "10:00", id |-> "1"]

\* The data rows an editor puts in the sheet, all pending (section 3 of the
\* spec: rows are created pending): the base row, rows a day later, and rows
\* that differ from the base row in the spelling of the status, the text,
\* the date or the form of the time (and in the id, so that rows of the
\* same instant carry a larger, a non-numeric or no id).  Rows that are not
\* pending come from the runs themselves.
RowPool ==
    { Base,
      [Base EXCEPT !.date = "2026-01-02", !.id = "2"],
      [Base EXCEPT !.status = " pending ", !.date = "2026-01-02",
                   !.time = "10:00:00", !.id = "x"],
      [Base EXCEPT !.text = "", !.id = ""],
      [Base EXCEPT !.time = "10:00:00", !.id = "2"],
      [Base EXCEPT !.date = "soon"] }

MkRow(hs, c) ==
    [h \in hs |->
        CASE ToLowerCase(h) = "status"       -> c.status
          [] ToLowerCase(h) = "post text"    -> c.text
          [] ToLowerCase(h) = "publish date" -> c.date
          [] ToLowerCase(h) = "time (utc)"   -> c.time
          [] ToLowerCase(h) = "id"           -> c.id
          [] OTHER                           -> ""]

Sheets(hs, pool) ==
    UNION {[1..n -> {MkRow(hs, c) : c \in pool}] : n \in 0..MaxRows}

-----------------------------------------------------------------------------
(* OAuth 1.0a signer (v3 lines 423-472, v5 lines 911-957) *)

\* Text handled by the signer is a sequence of tokens.  A token is one
\* character, or a word made of letters, digits, "-" and "_" only (such as
\* "https" or "oauth_nonce"), which no step of the signer takes apart.

\* The characters encodeURIComponent escapes, among those of the model.
Escaped == {":", "/", "?", "#", "=", "&", "%", ",", "\"", " ", "+"}

\* The characters encodeURIComponent leaves and the replace() escapes.
Marks == {"!", "'", "(", ")", "*"}

\* "%" and the two upper-case hexadecimal digits of the character code.
Pct(c) ==
    CASE c = ":"  -> <<"%", "3", "A">>
      [] c = "/"  -> <<"%", "2", "F">>
      [] c = "?"  -> <<"%", "3", "F">>
      [] c = "#"  -> <<"%", "2", "3">>
      [] c = "="  -> <<"%", "3", "D">>
      [] c = "&"  -> <<"%", "2", "6">>
      [] c = "%"  -> <<"%", "2", "5">>
      [] c = ","  -> <<"%", "2", "C">>
      [] c = "\"" -> <<"%", "2", "2">>
      [] c = " "  -> <<"%", "2", "0">>
      [] c = "+"  -> <<"%", "2", "B">>
      [] c = "!"  -> <<"%", "2", "1">>
      [] c = "'"  -> <<"%", "2", "7">>
      [] c = "("  -> <<"%", "2", "8">>
      [] c = ")"  -> <<"%", "2", "9">>
      [] c = "*"  -> <<"%", "2", "A">>

RECURSIVE EscapeAll(_, _)
\* Replaces every token of str that is in cs by its escape.
EscapeAll(str, cs) ==
    IF Len(str) = 0 THEN <<>>
    ELSE IF Len(str) = 1
         THEN (IF str[1] \in cs THEN Pct(str[1]) ELSE str)
         ELSE EscapeAll(SubSeq(str, 1, Len(str) \div 2), cs)
                  \o EscapeAll(SubSeq(str, Len(str) \div 2 + 1, Len(str)), cs)

encodeURIComponent(str) == EscapeAll(str, Escaped)

\* v3 lines 424-427, v5 lines 911-914
percentEncode(str) == EscapeAll(encodeURIComponent(str), Marks)

\* String.prototype.toUpperCase on the method names of the model.
toUpperCase(m) ==
    CASE m = "post" -> "POST"
      [] m = "get"  -> "GET"
      [] OTHER      -> m

RECURSIVE IndexOf(_, _, _)
\* Index of the first token c of str at or after position i, 0 if none.
IndexOf(str, c, i) ==
    IF i > Len(str) THEN 0
    ELSE IF str[i] = c THEN i
    ELSE IndexOf(str, c, i + 1)

Before(str, c) ==
    IF IndexOf(str, c, 1) = 0 THEN str
    ELSE SubSeq(str, 1, IndexOf(str, c, 1) - 1)

After(str, c) ==
    IF IndexOf(str, c, 1) = 0 THEN <<>>
    ELSE SubSeq(str, IndexOf(str, c, 1) + 1, Len(str))

RECURSIVE SplitOn(_, _)
\* String.prototype.split on a one-character separator; <<>> for "".
SplitOn(str, c) ==
    IF str = <<>> THEN <<>>
    ELSE IF IndexOf(str, c, 1) = 0 THEN <<str>>
    ELSE <<Before(str, c)>> \o SplitOn(After(str, c), c)

RECURSIVE Join(_, _)
\* Array.prototype.join
Join(strs, sep) ==
    IF strs = <<>> THEN <<>>
    ELSE IF Len(strs) = 1 THEN strs[1]
    ELSE strs[1] \o sep \o Join(Tail(strs), sep)

\* new URL(url) on the URLs of the model, which are absolute, lower-case
\* and without port, user or escapes: origin and pathname (v3 lines 440-441).
\* A URL without path has pathname "/".
UrlNoHash(url) == Before(url, "#")

UrlSearch(url) == After(UrlNoHash(url), "?")

UrlOriginPath(url) ==
    LET b == Before(UrlNoHash(url), "?")
    IN  IF IndexOf(b, "/", 5) = 0 THEN b \o <<"/">> ELSE b

\* u.searchParams as the sequence of its [k, v] entries: the search string
\* split on "&", each piece split on its first "=".  Parameter names are
\* single tokens in the model.
SearchParams(url) ==
    LET pieces == SelectSeq(SplitOn(UrlSearch(url), "&"),
                            LAMBDA x : x # <<>>)
    IN  [i \in 1..Len(pieces) |->
            [k |-> Before(pieces[i], "=")[1], v |-> After(pieces[i], "=")]]

\* v3 lines 442-445: forEach assigns queryParams[key] = value, so the last
\* entry of a name is the one kept.
QueryParams(url) ==
    LET sp == SearchParams(url)
        Last(k) == CHOOSE i \in 1..Len(sp) :
                       /\ sp[i].k = k
                       /\ \A j \in (i + 1)..Len(sp) : sp[j].k # k
    IN  [k \in {sp[i].k : i \in 1..Len(sp)} |-> sp[Last(k)].v]

\* The parameter names of the model in the order of Array.prototype.sort
\* (by UTF-16 code unit).
KeyOrder ==
    <<"a", "b", "oauth_consumer_key", "oauth_nonce", "oauth_signature",
      "oauth_signature_method", "oauth_timestamp", "oauth_token",
      "oauth_version", "z">>

\* Object.keys(params).sort()
SortedKeys(params) == SelectSeq(KeyOrder, LAMBDA k : k \in DOMAIN params)

\* v3 lines 430-438, v5 lines 924-931; nonce and timestamp are what
\* crypto.randomBytes and Date.now gave this call.
OauthParams(in) ==
    [k \in {"oauth_consumer_key", "oauth_nonce", "oauth_signature_method",
            "oauth_timestamp", "oauth_token", "oauth_version"} |->
        CASE k = "oauth_consumer_key"     -> in.consumerKey
          [] k = "oauth_nonce"            -> in.nonce
          [] k = "oauth_signature_method" -> <<"HMAC-SHA1">>
          [] k = "oauth_timestamp"        -> in.timestamp
          [] k = "oauth_token"            -> in.token
          [] k = "oauth_version"          -> <<"1", ".", "0">>]

\* v5 lines 916-921, v3 lines 449-452
buildQueryString(params) ==
    LET ks == SortedKeys(params)
    IN  Join([i \in 1..Len(ks) |->
                 percentEncode(<<ks[i]>>) \o <<"=">>
                     \o percentEncode(params[ks[i]])],
             <<"&">>)

\* v3 line 448: { ...queryParams, ...oauthParams }
AllParams(in) ==
    LET q == QueryParams(in.url)
        o == OauthParams(in)
    IN  [k \in DOMAIN q \cup DOMAIN o |->
            IF k \in DOMAIN o THEN o[k] ELSE q[k]]

\* v3 lines 454-458 and v5 lines 938-942
BaseString(v, in) ==
    IF v = "v3"
    THEN <<toUpperCase(in.method), "&">>
             \o percentEncode(UrlOriginPath(in.url)) \o <<"&">>
             \o percentEncode(buildQueryString(AllParams(in)))
    ELSE <<toUpperCase(in.method), "&">>
             \o percentEncode(in.url) \o <<"&">>
             \o percentEncode(buildQueryString(OauthParams(in)))

\* v3 line 460, v5 line 944
SigningKey(in) ==
    percentEncode(in.consumerSecret) \o <<"&">>
        \o percentEncode(in.tokenSecret)

\* crypto.createHmac("sha1", key).update(base).digest("base64"), taken as
\* free of collisions: the digest stands for its key and its message.  The
\* key holds no "," (percentEncode escapes it), so the pair can be read back.
HmacSha1Base64(key, base) ==
    <<"hmac", "(">> \o key \o <<",">> \o base \o <<")">>

\* v3 lines 461-469, v5 lines 945-956
AuthHeader(in, signature) ==
    LET hp == [k \in DOMAIN OauthParams(in) \cup {"oauth_signature"} |->
                  IF k = "oauth_signature" THEN signature
                  ELSE OauthParams(in)[k]]
        ks == SortedKeys(hp)
    IN  <<"OAuth", " ">>
            \o Join([i \in 1..Len(ks) |->
                        percentEncode(<<ks[i]>>) \o <<"=", "\"">>
                            \o percentEncode(hp[ks[i]]) \o <<"\"">>],
                    <<",", " ">>)

\* What the callers of the signer may pass.
Methods == {"POST", "post", "GET"}

Stem == <<"https", ":", "/", "/", "h", "/", "p">>

Urls ==
    {Stem,
     <<"https", ":", "/", "/", "h">>,
     Stem \o <<"#", "f">>,
     Stem \o <<"?", "a", "=", "1">>,
     Stem \o <<"?", "a", "=", "2">>,
     Stem \o <<"?", "a", "=", "1", "&", "b", "=", "2">>,
     Stem \o <<"?", "a", "=", "1", "&", "a", "=", "2">>}

Keys == {<<"ck">>, <<"c", "!", "k">>}

Secrets == {<<"s">>, <<"s", "&", "t">>}

TokenSecrets == {<<"t">>, <<"t", "&", "u">>}

Nonces == {<<"n1">>, <<"n2">>}

Timestamps == {<<"1", "7">>, <<"1", "8">>}

Choices ==
    [method |-> Methods, url |-> Urls, consumerKey |-> Keys,
     consumerSecret |-> Secrets, token |-> Keys,
     tokenSecret |-> TokenSecrets, nonce |-> Nonces,
     timestamp |-> Timestamps]

SignInputs ==
    [method : Choices.method, url : Choices.url,
     consumerKey : Choices.consumerKey,
     consumerSecret : Choices.consumerSecret, token : Choices.token,
     tokenSecret : Choices.tokenSecret, nonce : Choices.nonce,
     timestamp : Choices.timestamp]

NoInput ==
    [method |-> "", url |-> <<>>, consumerKey |-> <<>>,
     consumerSecret |-> <<>>, token |-> <<>>, tokenSecret |-> <<>>,
     nonce |-> <<>>, timestamp |-> <<>>]

NoCall ==
    [n |-> 0, in |-> NoInput, base |-> <<>>, signature |-> <<>>,
     header |-> <<>>]

-----------------------------------------------------------------------------
(* Initial states *)

Idle == [r \in Runs |-> "idle"]

\* The script and the DRY_RUN setting of a behaviour.  Only v3 reads DRY_RUN,
\* so the other scripts are started without it: with it they run the same.
Envs == {e \in Variants \X BOOLEAN : e[2] => e[1] = "v3"}

\* No sheet read issued yet.
NoReads == [meta |-> 0, range |-> 0]

\* What may be absent from the environment.
Gaps == {"none", "store", "api"}

InitIn(schemas, pool, envs, tabs, gaps) ==
    /\ \E e \in envs : variant = e[1] /\ dryRun = e[2]
    /\ tabExists \in tabs
    /\ missing \in gaps
    /\ reads = [r \in Runs |-> NoReads]
    /\ headers \in schemas
    /\ sheet \in Sheets(headers, pool)
    /\ clock = 1
    /\ pc = Idle
    /\ now = [r \in Runs |-> 0]
    /\ snap = [r \in Runs |-> <<>>]
    /\ chosen = [r \in Runs |-> 0]
    /\ cur = [r \in Runs |-> <<>>]
    /\ tweetId = [r \in Runs |-> ""]
    /\ result = [r \in Runs |-> "none"]
    /\ exit = [r \in Runs |-> 0]
    /\ apiCalls = [r \in Runs |-> 0]
    /\ writes = [r \in Runs |-> 0]
    /\ overlapped = [r \in Runs |-> FALSE]
    /\ started = 0
    /\ calls = [i \in 1..Len(sheet) |-> 0]
    /\ accepted = [i \in 1..Len(sheet) |-> 0]
    /\ unrecorded = [i \in 1..Len(sheet) |-> 0]
    /\ answer = [r \in Runs |-> "none"]
    /\ edits = 0
    /\ signed = NoCall

\* Every setting is present and the tab exists.
InitWith(schemas, pool, envs) == InitIn(schemas, pool, envs, {TRUE}, {"none"})

Init == InitWith(Schemas, RowPool, Envs)

\* Overlapping runs start from the sheets with every column, over the base
\* row and the row without text.
InitOverlap ==
    InitWith({hs \in Schemas : "Tweet ID" \in hs /\ "tweet_id" \in hs},
             {c \in RowPool : c = Base \/ c.text = ""}, Envs)

\* A header row whose optional columns are spelled in lower case.
MixedCase ==
    {"Publish Date", "Time (UTC)", "Post Text", "Status", "id",
     "tweet id", "posted at (utc)"}

\* Sheets an editor works on while the script runs: every column or the
\* lower-case optional columns, over the base row and the row without text.
InitEdited ==
    InitWith({hs \in Schemas : "Tweet ID" \in hs /\ "tweet_id" \in hs}
                 \cup {MixedCase},
             {c \in RowPool : c = Base \/ c.text = ""}, Envs)

\* Any environment: a setting may be absent and the tab may not exist.
InitSetup ==
    InitIn(Schemas, {c \in RowPool : c = Base \/ c.text = ""}, Envs,
           BOOLEAN, Gaps)

\* Runs with DRY_RUN set in the environment, whatever the script.
InitDryRun ==
    InitWith(Schemas, {c \in RowPool : c = Base \/ c.text = ""},
             Variants \X {TRUE})

-----------------------------------------------------------------------------
(* One run of main() *)

Active(r) == pc[r] \notin {"idle", "done"}

\* Mutant of rowIndex: the header row is counted twice.
rowIndexPastHeader(i) == i + 2

\* The sheet row number of data row i (1-based here): v1 sheetRow = i + 2
\* over the 0-based index (line 85), v3 __rowIndex1 (line 363), v4 rowNumber
\* (line 833), v5 __rowIndex (line 1013).  Sheet row 1 is the header row.
rowIndex(i) == i + 1

\* Mutant of DataRowAt: the range is one row too low in the sheet.
DataRowAtNext(n) == n

\* The data row a write to sheet row n lands on (A<n>:Z<n>; v4 dataIndex,
\* line 726).
DataRowAt(n) == n - 1

\* The data row the update of run r addresses.
Target(r) == DataRowAt(rowIndex(chosen[r]))

\* Mutant of AfterWrite: main() writes the row again.
AfterWriteAgain == "writing"

\* Mutant of AfterWrite: main() goes on to the next candidate.
AfterWriteLoop == "fetched"

\* Where main() goes after the sheet is updated: it returns (v1 line 133, v3
\* line 629, v4 line 857, v5 line 1145); one row per run.
AfterWrite == "done"

\* The scheduler starts the script, a fresh process, at some instant not
\* before the last start; main() reads the time once (v1 line 81, v4 line
\* 797, v5 line 1099; v3 isDue reads it per row, line 417).
\* Run slots are interchangeable: a new process takes the lowest free one.
Start(r) ==
    /\ ~Active(r)
    /\ \A q \in Runs : q < r => Active(q)
    /\ started < MaxRuns
    /\ started' = started + 1
    /\ \E c \in ClockValues :
          /\ c >= clock
          /\ clock' = c
          /\ now' = [now EXCEPT ![r] = c]
    /\ pc' = [pc EXCEPT ![r] = "fetching"]
    /\ snap' = [snap EXCEPT ![r] = <<>>]
    /\ chosen' = [chosen EXCEPT ![r] = 0]
    /\ cur' = [cur EXCEPT ![r] = <<>>]
    /\ tweetId' = [tweetId EXCEPT ![r] = ""]
    /\ result' = [result EXCEPT ![r] = "none"]
    /\ exit' = [exit EXCEPT ![r] = 0]
    /\ apiCalls' = [apiCalls EXCEPT ![r] = 0]
    /\ writes' = [writes EXCEPT ![r] = 0]
    /\ answer' = [answer EXCEPT ![r] = "none"]
    /\ reads' = [reads EXCEPT ![r] = NoReads]
    /\ overlapped' = [q \in Runs |->
            IF q = r THEN \E o \in Runs \ {r} : Active(o)
            ELSE overlapped[q] \/ Active(q)]
    /\ UNCHANGED <<signed, tabExists, missing, variant, dryRun,
                   headers, sheet, calls, accepted, unrecorded,
                   edits>>

\* Mutant of End: every run exits with code 0.
EndClean(r, how, code) ==
    /\ pc' = [pc EXCEPT ![r] = "done"]
    /\ result' = [result EXCEPT ![r] = how]
    /\ exit' = [exit EXCEPT ![r] = 0]

\* Mutant of End: a failed update is tried again.
EndRetry(r, how, code) ==
    /\ pc' = [pc EXCEPT ![r] = IF how = "updateerror" THEN "posted" ELSE "done"]
    /\ result' = [result EXCEPT ![r] = how]
    /\ exit' = [exit EXCEPT ![r] = IF how = "updateerror" THEN 0 ELSE code]

\* How a run ends: pc, result and exit code.
End(r, how, code) ==
    /\ pc' = [pc EXCEPT ![r] = "done"]
    /\ result' = [result EXCEPT ![r] = how]
    /\ exit' = [exit EXCEPT ![r] = code]

\* Whether a missing setting stops the script before it reads the sheet.
\* v1 (lines 10-19) and v4 (ENV, lines 647-660) read every variable when the
\* module loads; v3 reads the GOOGLE_* variables in main and getSheetsClient
\* (lines 549-552, 341-343) and v5 in fetchRowsAndHeaders and getSheetsClient
\* (lines 991-994, 961-963), but both read the X_* variables in postToX
\* (v3 lines 475-478, v5 lines 1047-1050).
StopsBeforeFetch(v, gap) ==
    \/ gap = "store"
    \/ gap = "api" /\ v \in {"v1", "v4"}

\* Whether the script looks the tab up before it reads the range: v5
\* assertTabExists (lines 971-988, called at line 995).
ChecksTab(v) == v = "v5"

\* The range read (values.get): v1 lines 47-53, v3 fetchRows (lines
\* 513-521), v4 fetchRows (lines 697-712), v5 lines 997-1003, after m
\* metadata reads.  The read of a tab that does not exist fails.
RangeRead(r, m) ==
    /\ reads' = [reads EXCEPT ![r] = [meta |-> m, range |-> 1]]
    /\ \E ok \in BOOLEAN :
          IF ok /\ tabExists
          THEN /\ snap' = [snap EXCEPT ![r] = sheet]
               /\ pc' = [pc EXCEPT ![r] = "fetched"]
               /\ UNCHANGED <<result, exit>>
          ELSE /\ End(r, "fetcherror", 1)
               /\ UNCHANGED snap

\* The start of the script up to the fetched rows.  A missing setting, a
\* missing tab (v5) or a failed read throws; main().catch / fatal or the
\* module loader exit with code 1.
Fetch(r) ==
    /\ pc[r] = "fetching"
    /\ IF StopsBeforeFetch(variant, missing)
       THEN /\ End(r, "configerror", 1)
            /\ UNCHANGED <<snap, reads>>
       ELSE IF ChecksTab(variant)
       THEN \E ok \in BOOLEAN :
               IF ~ok
               THEN /\ End(r, "fetcherror", 1)
                    /\ reads' = [reads EXCEPT ![r] = [meta |-> 1, range |-> 0]]
                    /\ UNCHANGED snap
               ELSE IF ~tabExists
               THEN /\ End(r, "tabnotfound", 1)
                    /\ reads' = [reads EXCEPT ![r] = [meta |-> 1, range |-> 0]]
                    /\ UNCHANGED snap
               ELSE RangeRead(r, 1)
       ELSE RangeRead(r, 0)
    /\ UNCHANGED <<signed, tabExists, missing, variant, dryRun,
                   headers, sheet, clock, now, chosen, cur,
                   tweetId, apiCalls, writes, overlapped, started, calls,
                   accepted, unrecorded, answer, edits>>

\* Selection, synchronous: v1 lines 54-111, v3 lines 557-595, v4 lines
\* 801-841, v5 lines 1094-1121.
SelectRow(r) ==
    /\ pc[r] = "fetched"
    /\ \E s \in {Select(variant, snap[r], now[r])} :
           CASE s.kind = "norows"     -> End(r, "norows", 0) /\ UNCHANGED chosen
             [] s.kind = "throw"      -> End(r, "selecterror", 1) /\ UNCHANGED chosen
             [] s.kind = "nothingdue" -> End(r, "nothingdue", 0) /\ UNCHANGED chosen
             [] OTHER ->
                  /\ chosen' = [chosen EXCEPT ![r] = s.i]
                  /\ pc' = [pc EXCEPT ![r] =
                        IF PostText(variant, snap[r][s.i]) # "" THEN "selected"
                        ELSE IF variant = "v1" THEN "skipping" ELSE "done"]
                  /\ result' = [result EXCEPT ![r] =
                        IF PostText(variant, snap[r][s.i]) = "" /\ variant # "v1"
                        THEN "emptytext" ELSE result[r]]
                  /\ UNCHANGED exit
    /\ UNCHANGED <<signed, tabExists, missing, reads, variant, dryRun,
                   headers, sheet, clock, now, snap, cur,
                   tweetId, apiCalls, writes, overlapped, started, calls,
                   accepted, unrecorded, answer, edits>>

\* What the posting API may answer: 2xx with an id, 2xx without one, or a
\* non-2xx status (a transport error ends the run the same way).
Answers == {"ok_id", "ok_noid", "rejected"}

\* The identifier the API returns for the post of run number n.
NewTweetId(n) == "tw" \o ToString(n)

\* Whether a script throws on a 2xx answer without an id: v4 line 791 and v5
\* line 1082 do; v1 (line 129) and v3 (line 606) carry on.
ThrowsWithoutId(v) == v \in {"v4", "v5"}

\* Mutant of PostThrows: a non-2xx answer is taken for a success.
PostThrowsWithoutIdOnly(v, a) == a = "ok_noid" /\ ThrowsWithoutId(v)

\* Whether the posting call throws on answer a: on a non-2xx status (v1
\* twitter.v2.tweet line 122, v3 lines 503-505, v4 lines 786-788, v5 lines
\* 1076-1079) and, in v4 and v5, on a 2xx answer without id.
PostThrows(v, a) == a = "rejected" \/ (a = "ok_noid" /\ ThrowsWithoutId(v))

\* Mutant of Post: the script posts a row only while no other active run
\* has selected it.
PostUnderLease(r) ==
    /\ pc[r] = "selected"
    /\ \A o \in Runs \ {r} : ~(Active(o) /\ chosen[o] = chosen[r])
    /\ IF variant = "v3" /\ dryRun
       THEN /\ End(r, "dryrun", 0)
            /\ UNCHANGED <<tweetId, apiCalls, calls, accepted, unrecorded,
                            answer>>
       ELSE IF missing = "api"
       THEN /\ End(r, "configerror", 1)
            /\ UNCHANGED <<tweetId, apiCalls, calls, accepted, unrecorded,
                            answer>>
       ELSE \E a \in Answers :
            /\ apiCalls' = [apiCalls EXCEPT ![r] = @ + 1]
            /\ answer' = [answer EXCEPT ![r] = a]
            /\ calls' = [calls EXCEPT ![chosen[r]] = @ + 1]
            /\ accepted' = [accepted EXCEPT ![chosen[r]] =
                               IF a = "rejected" THEN @ ELSE @ + 1]
            /\ IF PostThrows(variant, a)
               THEN /\ End(r, "posterror", 1)
                    /\ unrecorded' = [unrecorded EXCEPT ![chosen[r]] =
                                         IF a = "rejected" THEN @ ELSE @ + 1]
                    /\ UNCHANGED tweetId
               ELSE /\ pc' = [pc EXCEPT ![r] = "posted"]
                    /\ tweetId' = [tweetId EXCEPT ![r] =
                                      IF a = "ok_id" THEN NewTweetId(started) ELSE ""]
                    /\ UNCHANGED <<result, exit, unrecorded>>
    /\ UNCHANGED <<signed, tabExists, missing, reads, variant, dryRun,
                   headers, sheet, clock, now, snap, chosen,
                   cur, writes, overlapped, started, edits>>

\* The posting call: v1 line 122, v3 lines 602-607 (skipped under DRY_RUN),
\* v4 line 846 with postToX (lines 761-794), v5 line 1126 with postToX
\* (lines 1046-1084).
Post(r) ==
    /\ pc[r] = "selected"
    /\ IF variant = "v3" /\ dryRun
       THEN /\ End(r, "dryrun", 0)
            /\ UNCHANGED <<tweetId, apiCalls, calls, accepted, unrecorded,
                            answer>>
       ELSE IF missing = "api"
       THEN /\ End(r, "configerror", 1)
            /\ UNCHANGED <<tweetId, apiCalls, calls, accepted, unrecorded,
                            answer>>
       ELSE \E a \in Answers :
            /\ apiCalls' = [apiCalls EXCEPT ![r] = @ + 1]
            /\ answer' = [answer EXCEPT ![r] = a]
            /\ calls' = [calls EXCEPT ![chosen[r]] = @ + 1]
            /\ accepted' = [accepted EXCEPT ![chosen[r]] =
                               IF a = "rejected" THEN @ ELSE @ + 1]
            /\ IF PostThrows(variant, a)
               THEN /\ End(r, "posterror", 1)
                    /\ unrecorded' = [unrecorded EXCEPT ![chosen[r]] =
                                         IF a = "rejected" THEN @ ELSE @ + 1]
                    /\ UNCHANGED tweetId
               ELSE /\ pc' = [pc EXCEPT ![r] = "posted"]
                    /\ tweetId' = [tweetId EXCEPT ![r] =
                                      IF a = "ok_id" THEN NewTweetId(started) ELSE ""]
                    /\ UNCHANGED <<result, exit, unrecorded>>
    /\ UNCHANGED <<signed, tabExists, missing, reads, variant, dryRun,
                   headers, sheet, clock, now, snap, chosen,
                   cur, writes, overlapped, started, edits>>

\* Whether updateRow reads the row again before it writes: v1 lines 142-148
\* (the one row), v4 lines 722-731 (the whole sheet).
ReadsBack(v) == v \in {"v1", "v4"}

\* A failed sheet call after the API accepted the post leaves the post
\* without a record.
Unrecorded(r) ==
    [unrecorded EXCEPT ![chosen[r]] = IF apiCalls[r] > 0 THEN @ + 1 ELSE @]

\* The read inside updateRow (v1, v4).
UpdateRead(r) ==
    /\ ReadsBack(variant)
    /\ pc[r] \in {"posted", "skipping"}
    /\ \E ok \in BOOLEAN :
          IF ok /\ Target(r) \in 1..Len(sheet)
          THEN /\ cur' = [cur EXCEPT ![r] = sheet[Target(r)]]
               /\ pc' = [pc EXCEPT ![r] = "writing"]
               /\ UNCHANGED <<result, exit, unrecorded>>
          ELSE /\ End(r, "updateerror", 1)
               /\ unrecorded' = Unrecorded(r)
               /\ UNCHANGED cur
    /\ UNCHANGED <<signed, tabExists, missing, reads, variant, dryRun,
                   headers, sheet, clock, now, snap, chosen,
                   tweetId, apiCalls, writes, overlapped, started, calls,
                   accepted, answer, edits>>

\* The row a script's update starts from: the row read back (v1, v4), the
\* row as fetched (v3 line 530), or the cells in the sheet (v5 writes single
\* cells).
WriteBase(v, r) ==
    CASE ReadsBack(v) -> cur[r]
      [] v = "v3"     -> snap[r][chosen[r]]
      [] OTHER        -> sheet[Target(r)]

\* The row as the update leaves it.
Written(v, r) ==
    ApplyUpdates(v, WriteBase(v, r),
                 Updates(v, PostText(v, snap[r][chosen[r]]), tweetId[r],
                         ToISOString(clock)))

\* The sheet write: v1 lines 155-160, v3 lines 538-545, v4 lines 743-748, v5
\* lines 1036-1042.
UpdateWrite(r) ==
    /\ IF ReadsBack(variant) THEN pc[r] = "writing" ELSE pc[r] = "posted"
    /\ \E ok \in BOOLEAN :
          IF ok /\ Target(r) \in 1..Len(sheet)
          THEN /\ sheet' = [sheet EXCEPT ![Target(r)] = Written(variant, r)]
               /\ writes' = [writes EXCEPT ![r] = @ + 1]
               /\ pc' = [pc EXCEPT ![r] = AfterWrite]
               /\ result' = [result EXCEPT ![r] =
                                IF apiCalls[r] > 0 THEN "posted" ELSE "skipped"]
               /\ UNCHANGED <<exit, unrecorded>>
          ELSE /\ End(r, "updateerror", 1)
               /\ unrecorded' = Unrecorded(r)
               /\ UNCHANGED <<sheet, writes>>
    /\ UNCHANGED <<signed, tabExists, missing, reads, variant, dryRun,
                   headers, clock, now, snap, chosen, cur,
                   tweetId, apiCalls, overlapped, started, calls, accepted,
                   answer, edits>>

Step(r) ==
    \/ Start(r)
    \/ Fetch(r)
    \/ SelectRow(r)
    \/ Post(r)
    \/ UpdateRead(r)
    \/ UpdateWrite(r)

\* Runs one after the other: the single-flight use the scheduler is meant
\* to give.
Next == Step(1)

Spec == Init /\ [][Next]_vars

\* The steps of a started run: each awaited call returns, with a result or
\* with an error, and main() goes on.
RunStep(r) ==
    Fetch(r) \/ SelectRow(r) \/ Post(r) \/ UpdateRead(r) \/ UpdateWrite(r)

\* Runs one after the other in which every call returns, over the sheets
\* with the required columns alone.
InitLive ==
    InitWith({hs \in Schemas : Cardinality(hs) = 5},
             {c \in RowPool : c = Base \/ c.text = "" \/ c.date = "soon"},
             Envs)

SpecLive == InitLive /\ [][Next]_vars /\ WF_vars(RunStep(1))

\* The signer called on its own, as a unit with the inputs of its
\* parameter object; nonce and timestamp are drawn where the code draws them.
Signers == {"v3", "v5"}

InitSign == InitWith({MixedCase}, {}, Signers \X {FALSE})

NotSigned ==
    <<variant, dryRun, headers, sheet, clock, pc, now, snap, chosen, cur,
      tweetId, result, exit, apiCalls, writes, overlapped, started,
      calls, accepted, unrecorded, answer, edits, tabExists, missing, reads>>

\* buildOAuth1Header (v3 lines 429-472) or oauth1Header (v5 lines 923-957)
Sign(in) ==
    /\ signed.n < MaxSigns
    /\ \E base \in {BaseString(variant, in)} :
       \E signature \in {HmacSha1Base64(SigningKey(in), base)} :
           signed' = [n         |-> signed.n + 1,
                      in        |-> in,
                      base      |-> base,
                      signature |-> signature,
                      header    |-> AuthHeader(in, signature)]
    /\ UNCHANGED NotSigned

\* A first call, with any inputs.
SignFirst ==
    /\ signed.n = 0
    /\ \E in \in SignInputs : Sign(in)

\* A further call, with the inputs of the call before or with one of them
\* changed.
SignNext ==
    /\ signed.n > 0
    /\ \E f \in DOMAIN Choices : \E x \in Choices[f] :
           Sign([signed.in EXCEPT ![f] = x])

NextSign == SignFirst \/ SignNext

SpecSign == InitSign /\ [][NextSign]_vars

\* Runs that may overlap: nothing in the scripts prevents it.
NextOverlap == \E r \in Runs : Step(r)

SpecOverlap == InitOverlap /\ [][NextOverlap]_vars

\* An editor of the sheet changes the text of a row; the sheet is shared
\* with its editors and the scripts take no lock on it (fetch: v1 lines
\* 47-53, v3 lines 513-521; write: v3 lines 538-545).
Edit ==
    /\ edits < MaxEdits
    /\ findHeaderIndex("Post Text") # ""
    /\ \E i \in 1..Len(sheet) :
          /\ sheet[i][findHeaderIndex("Post Text")] # "edited"
          /\ sheet' = [sheet EXCEPT ![i][findHeaderIndex("Post Text")] = "edited"]
    /\ edits' = edits + 1
    /\ UNCHANGED <<signed, tabExists, missing, reads, variant, dryRun,
                   headers, clock, pc, now, snap, chosen, cur,
                   tweetId, result, exit, apiCalls, writes, overlapped,
                   started, calls, accepted, unrecorded, answer>>

\* Runs one after the other on a sheet that is being edited.
NextEdited == Step(1) \/ Edit

SpecEdited == InitEdited /\ [][NextEdited]_vars

\* Runs one after the other in any environment.
SpecSetup == InitSetup /\ [][Next]_vars

\* Runs one after the other with DRY_RUN set.
SpecDryRun == InitDryRun /\ [][Next]_vars

-----------------------------------------------------------------------------
(* What the claims speak of, read off the sheet itself *)

\* The status of a row as the sheet holds it, trimmed and in lower case.
StoreStatus(row) == ToLowerCase(Trim(Cell(row, findHeaderIndex("Status"))))

\* A run has recorded an outcome on the row.
Recorded(row) == StoreStatus(row) \in {"posted", "skipped"}

\* The scheduled instant as section 4.3 of the spec reads it: date and time
\* trimmed, HH:MM taken as HH:MM:00.
SpecInstant(row) ==
    LET d == Trim(Cell(row, findHeaderIndex("Publish Date")))
        t == Trim(Cell(row, findHeaderIndex("Time (UTC)")))
    IN  DateParse(d \o "T" \o (IF Len(t) = 5 THEN t \o ":00" ELSE t) \o "Z")

\* Eligible for dispatch (section 3 of the spec).
Eligible(row, nowv) ==
    /\ StoreStatus(row) = "pending"
    /\ Trim(Cell(row, findHeaderIndex("Post Text"))) # ""
    /\ SpecInstant(row).ok
    /\ SpecInstant(row).n <= nowv

\* The row carries a numeric id.
HasId(row) ==
    /\ Cell(row, findHeaderIndex("id")) # ""
    /\ Number(Cell(row, findHeaderIndex("id"))).ok

IdOf(row) == Number(Cell(row, findHeaderIndex("id"))).n

\* A run that has the fetched rows in hand.
HasFetched(r) ==
    /\ pc[r] \notin {"idle", "fetching"}
    /\ result[r] \notin {"fetcherror", "tabnotfound"}
    /\ result[r] = "configerror" => reads[r].range = 1

\* The sheet's posted-at and result-id columns under the names the running
\* script gives them ("" when the sheet has no such column).  v3 names no
\* result-id column; for it the column is the "Tweet ID" of v1 and v5.
PostedAtCol(v) ==
    CASE v = "v1" -> Col(v, "Posted At")
      [] v = "v4" -> Col(v, "posted_at")
      [] OTHER    -> Col(v, "Posted At (UTC)")

ResultIdCol(v) ==
    CASE v = "v1" -> Col(v, "Tweet ID")
      [] v = "v3" -> Col(v, "Tweet ID")
      [] v = "v4" -> Col(v, "tweet_id")
      [] OTHER    -> Col(v, "Tweet ID")

-----------------------------------------------------------------------------
(* C1 *)

\* C1 as stated: over non-overlapping runs in which the posting call and the
\* sheet update may each fail, no row is accepted (2xx) by the posting API
\* more than once.
C1_AcceptedAtMostOnce ==
    \A i \in DOMAIN accepted : accepted[i] <= 1

\* C1 amended: over non-overlapping runs a row is accepted again only after
\* an accepted post that no status write followed (the sheet update failed,
\* or the script threw on a 2xx answer without id): the number of 2xx answers
\* for a row is at most one more than the number of such unrecorded posts.
C1_AcceptedOnceUnlessUnrecorded ==
    \A i \in DOMAIN accepted : accepted[i] <= unrecorded[i] + 1

\* A second run has ended after a first run posted a row and recorded it:
\* the row was accepted once.
C1_Witness ==
    /\ started = 2
    /\ pc[1] = "done"
    /\ \E i \in DOMAIN accepted :
          /\ accepted[i] = 1
          /\ unrecorded[i] = 0
          /\ StoreStatus(sheet[i]) = "posted"
          /\ i <= Len(snap[1])
          /\ StoreStatus(snap[1][i]) = "posted"

-----------------------------------------------------------------------------
(* C2 *)

\* C2: in every run the posting API is called at most once and at most one
\* sheet write (the status of one row) is issued, however many rows are due.
C2_AtMostOneDispatch ==
    \A r \in Runs : apiCalls[r] <= 1 /\ writes[r] <= 1

\* A run over two or more due rows has ended with one call and one write.
C2_Witness ==
    /\ pc[1] = "done"
    /\ apiCalls[1] = 1
    /\ writes[1] = 1
    /\ Cardinality({i \in 1..Len(snap[1]) :
                       IsCandidate(variant, snap[1][i], now[1])}) >= 2

-----------------------------------------------------------------------------
(* C3 *)

\* C3: once a run has written a row's status to posted or skipped, a later
\* run never selects that row and the posting API is never called for it
\* again.
C3_RecordedNeverRedispatched ==
    [][\A i \in 1..Len(sheet) :
          Recorded(sheet[i]) =>
             /\ calls'[i] = calls[i]
             /\ \A r \in Runs : pc[r] = "fetched" => chosen'[r] # i]_vars

\* A later run fetched a row an earlier run had recorded, and dispatched
\* another row.
C3_Witness ==
    /\ started = 2
    /\ pc[1] = "done"
    /\ apiCalls[1] = 1
    /\ \E i \in 1..Len(snap[1]) : Recorded(snap[1][i]) /\ chosen[1] # i

-----------------------------------------------------------------------------
(* C4 *)

\* C4 as stated: every status write changes a row that is pending in the
\* sheet to posted or skipped; no write lands on a row that is no longer
\* pending, no status goes back to pending, no row is removed.
C4_WritesOnlyPendingRows ==
    [][/\ \A r \in Runs :
             writes'[r] > writes[r] =>
                /\ StoreStatus(sheet[chosen[r]]) = "pending"
                /\ Recorded(sheet'[chosen[r]])
       /\ \A i \in 1..Len(sheet) : Recorded(sheet[i]) => Recorded(sheet'[i])
       /\ Len(sheet') = Len(sheet)]_vars

\* C4 amended: every status write sets the selected row to posted or
\* skipped, and when no other run overlapped the writing run the row was
\* pending in the sheet until then; no status goes back to pending and no
\* row is removed.
C4_WritesPendingRowsUnlessOverlapped ==
    [][/\ \A r \in Runs :
             writes'[r] > writes[r] =>
                /\ Recorded(sheet'[chosen[r]])
                /\ ~overlapped[r] => StoreStatus(sheet[chosen[r]]) = "pending"
       /\ \A i \in 1..Len(sheet) : Recorded(sheet[i]) => Recorded(sheet'[i])
       /\ Len(sheet') = Len(sheet)]_vars

\* A run that no other run overlapped has written a status.
C4_Witness ==
    \E r \in Runs :
       /\ pc[r] = "done"
       /\ writes[r] = 1
       /\ ~overlapped[r]
       /\ Recorded(sheet[chosen[r]])

-----------------------------------------------------------------------------
(* C5 *)

\* C5 as stated: a fetched row is among the candidates if and only if its
\* status is pending, its text is non-empty after trimming, and its date and
\* time parse to a valid instant not later than the current instant.
C5_CandidateIffEligible ==
    \A r \in Runs :
       HasFetched(r) =>
          \A i \in 1..Len(snap[r]) :
             IsCandidate(variant, snap[r][i], now[r])
                <=> Eligible(snap[r][i], now[r])

-----------------------------------------------------------------------------
(* C6 *)

\* C6 as stated: the row a run dispatches has the smallest scheduled instant
\* among the due pending rows, whatever the order of the rows in the sheet.
C6_EarliestFirst ==
    \A r \in Runs :
       (HasFetched(r) /\ chosen[r] # 0) =>
          \A j \in 1..Len(snap[r]) :
             IsCandidate(variant, snap[r][j], now[r]) =>
                Scheduled(variant, snap[r][chosen[r]]).n
                   <= Scheduled(variant, snap[r][j]).n

-----------------------------------------------------------------------------
(* C7 *)

\* C7 as stated: among due rows of the same instant the selected row has the
\* smallest numeric id when both rows carry an id, and otherwise comes first
\* in the sheet's order.
C7_TieBreakById ==
    \A r \in Runs :
       (HasFetched(r) /\ chosen[r] # 0) =>
          \A j \in 1..Len(snap[r]) :
             LET c == snap[r][chosen[r]]
                 o == snap[r][j]
             IN  ( /\ j # chosen[r]
                   /\ IsCandidate(variant, o, now[r])
                   /\ Scheduled(variant, o).n = Scheduled(variant, c).n ) =>
                    IF HasId(c) /\ HasId(o) /\ IdOf(c) # IdOf(o)
                    THEN IdOf(c) < IdOf(o)
                    ELSE chosen[r] < j

-----------------------------------------------------------------------------
(* C8 *)

\* The selected row of run r shows the post: status Posted, the timestamp and
\* the returned id in the columns the sheet has for them.
ShowsPost(r) ==
    LET row == sheet[chosen[r]]
    IN  /\ Cell(row, findHeaderIndex("Status")) = "Posted"
        /\ PostedAtCol(variant) # "" =>
              row[PostedAtCol(variant)] = ToISOString(now[r])
        /\ ResultIdCol(variant) # "" =>
              row[ResultIdCol(variant)] = tweetId[r]

\* C8 as stated: when the posting API answers 2xx with an identifier for the
\* selected row, the run ends with the row's status posted, its posted-at
\* field set to a timestamp and the result-id column, when the sheet has
\* one, set to the returned identifier (taken here in the case most
\* favourable to the claim: the sheet update that follows succeeds).
C8_PostedIsRecorded ==
    \A r \in Runs :
       (pc[r] = "done" /\ result[r] = "posted" /\ tweetId[r] # "") =>
          ShowsPost(r)

-----------------------------------------------------------------------------
(* C9 *)

\* The only pending row of the fetched rows is row i, it has no text and its
\* instant has come.
OnlyPendingIsEmpty(rows, i, nowv) ==
    /\ \A j \in 1..Len(rows) : StoreStatus(rows[j]) = "pending" <=> j = i
    /\ Trim(Cell(rows[i], findHeaderIndex("Post Text"))) = ""
    /\ SpecInstant(rows[i]).ok
    /\ SpecInstant(rows[i]).n <= nowv

\* C9 as stated: a run over a sheet whose only pending row has empty text
\* sets that row's status to skipped and makes no call to the posting API
\* (taken here in the case most favourable to the claim: the row is due and
\* no sheet call fails).
C9_EmptyTextIsSkipped ==
    \A r \in Runs :
       (pc[r] = "done" /\ HasFetched(r) /\ result[r] # "updateerror") =>
          \A i \in 1..Len(snap[r]) :
             OnlyPendingIsEmpty(snap[r], i, now[r]) =>
                /\ apiCalls[r] = 0
                /\ StoreStatus(sheet[i]) = "skipped"

-----------------------------------------------------------------------------
(* C10 *)

\* The cases C10 names: no data rows, no pending row, or every pending row
\* scheduled after the current instant.
NothingEligible(rows, nowv) ==
    \A i \in 1..Len(rows) :
       StoreStatus(rows[i]) = "pending" =>
          SpecInstant(rows[i]).ok /\ SpecInstant(rows[i]).n > nowv

\* C10 as stated: when the sheet has no data rows, no pending row, or only
\* pending rows scheduled in the future, the run reports nothing to do, makes
\* no call to the posting API and leaves every cell of the sheet unchanged.
C10_NothingDueLeavesStore ==
    \A r \in Runs :
       (pc[r] = "done" /\ HasFetched(r)
            /\ NothingEligible(snap[r], now[r])) =>
          /\ result[r] \in {"norows", "nothingdue"}
          /\ exit[r] = 0
          /\ apiCalls[r] = 0
          /\ writes[r] = 0
          /\ sheet = snap[r]

-----------------------------------------------------------------------------
(* C11 *)

\* C11: when the posting API answers with a non-2xx status, the run ends
\* with a post error and a non-zero exit code, issues no sheet write, and
\* the selected row's status is still pending.
C11_RejectedLeavesPending ==
    \A r \in Runs :
       (pc[r] = "done" /\ answer[r] = "rejected") =>
          /\ result[r] = "posterror"
          /\ exit[r] # 0
          /\ writes[r] = 0
          /\ StoreStatus(sheet[chosen[r]]) = "pending"
          /\ sheet = snap[r]

\* A run whose post was rejected has ended.
C11_Witness ==
    /\ pc[1] = "done"
    /\ answer[1] = "rejected"
    /\ apiCalls[1] = 1
    /\ exit[1] = 1

-----------------------------------------------------------------------------
(* C12 *)

\* C12 as stated: when the posting API answers 2xx without an identifier,
\* the run ends with an error and without a sheet write: the row is not
\* recorded as posted and its status is still pending.
C12_NoIdLeavesPending ==
    \A r \in Runs :
       (pc[r] = "done" /\ answer[r] = "ok_noid") =>
          /\ exit[r] # 0
          /\ writes[r] = 0
          /\ StoreStatus(sheet[chosen[r]]) = "pending"

-----------------------------------------------------------------------------
(* C13 *)

\* C13 as stated: with the dry-run flag enabled a run fetches and selects
\* but issues neither the posting API call nor a sheet write, and the sheet
\* after the run equals the sheet before it.
C13_DryRunChangesNothing ==
    \A r \in Runs :
       (dryRun /\ HasFetched(r)) =>
          /\ apiCalls[r] = 0
          /\ writes[r] = 0
          /\ sheet = snap[r]

-----------------------------------------------------------------------------
(* C14 *)

\* The columns the update of run r names, matched without regard to case.
Named(r) ==
    {findHeaderIndex(k) :
        k \in DOMAIN Updates(variant, PostText(variant, snap[r][chosen[r]]),
                             tweetId[r], ToISOString(clock))}

\* C14 as stated: a row update leaves every field of the target row that the
\* update does not name, and every other row, with the value it has in the
\* sheet at the time of the write, also when another writer changed it
\* between this run's fetch and its update.
C14_UpdatePreservesOtherCells ==
    [][\A r \in Runs :
          writes'[r] > writes[r] =>
             \A j \in 1..Len(sheet) : \A h \in headers :
                (j # chosen[r] \/ h \notin Named(r)) =>
                   sheet'[j][h] = sheet[j][h]]_vars

-----------------------------------------------------------------------------
(* C15 *)

\* The updates object of the run that has just written.
Sent(r) ==
    Updates(variant, PostText(variant, snap[r][chosen[r]]), tweetId[r],
            ToISOString(now[r]))

\* C15 as stated: a row update writes exactly the named fields whose name
\* matches a column of the sheet without regard to case; a named field with
\* no matching column is ignored without an error and the other named
\* fields are still written.
C15_UpdateMatchesAnyCase ==
    \A r \in Runs :
       (pc[r] = "done" /\ result[r] \in {"posted", "skipped"}) =>
          \A k \in DOMAIN Sent(r) :
             findHeaderIndex(k) # "" =>
                sheet[chosen[r]][findHeaderIndex(k)] = Sent(r)[k]

-----------------------------------------------------------------------------
(* C16 *)

\* The ways a run ends without an error, and with one.
CleanResults == {"posted", "skipped", "norows", "nothingdue", "emptytext",
                 "dryrun"}

ErrorResults ==
    {"configerror", "tabnotfound", "fetcherror", "selecterror", "posterror",
     "updateerror"}

\* C16: the exit code of a run is zero exactly when the run ended without a
\* surfaced error: a row recorded as posted or skipped, or nothing done to
\* the sheet and nothing sent; it is non-zero whenever the fetch, the post
\* or the sheet update failed.
C16_ExitCodeTellsOutcome ==
    \A r \in Runs :
       pc[r] = "done" =>
          /\ exit[r] = 0 <=> result[r] \in CleanResults
          /\ exit[r] # 0 <=> result[r] \in ErrorResults
          /\ exit[r] = 0 =>
                \/ writes[r] = 1 /\ Recorded(sheet[chosen[r]])
                \/ apiCalls[r] = 0 /\ writes[r] = 0 /\ sheet = snap[r]
          /\ answer[r] = "rejected" => exit[r] # 0
          /\ (apiCalls[r] > 0 /\ writes[r] = 0) => exit[r] # 0

\* A run has ended with a non-zero exit code because the sheet update failed
\* after the post was accepted.
C16_Witness ==
    /\ pc[1] = "done"
    /\ answer[1] = "ok_id"
    /\ result[1] = "updateerror"
    /\ exit[1] = 1

-----------------------------------------------------------------------------
(* C20 *)

\* C20 as stated: within a run the steps come in the order fetch, select,
\* post, update; a sheet write for a row with non-empty text is issued only
\* after the posting call for that row returned success with an identifier;
\* a run that fails at the fetch or at the post writes nothing.
C20_WriteOnlyAfterPostWithId ==
    [][\A r \in Runs :
          /\ writes'[r] > writes[r] =>
                /\ HasFetched(r) /\ chosen[r] # 0
                /\ Trim(Cell(snap[r][chosen[r]], findHeaderIndex("Post Text"))) # ""
                      => (apiCalls[r] = 1 /\ answer[r] = "ok_id")
          /\ (pc'[r] = "done" /\ result'[r] \in {"fetcherror", "posterror"})
                => (writes'[r] = 0 /\ sheet' = sheet)]_vars

-----------------------------------------------------------------------------
(* C19 *)

\* The controller state of the spec a position of main() belongs to, in
\* order: Idle, (fetching) Fetched, Selected (selected, posted, updating),
\* Done.
Rank(p) ==
    CASE p = "idle"     -> 0
      [] p = "fetching" -> 1
      [] p = "fetched"  -> 2
      [] p = "selected" -> 3
      [] p = "skipping" -> 3
      [] p = "posted"   -> 4
      [] p = "writing"  -> 5
      [] OTHER          -> 6

\* C19: a run moves through Idle, Fetched, Selected, Done in that order and
\* never goes back to an earlier state, and every started run reaches Done,
\* whatever the sheet holds and however the fetch, the post and the update
\* end, provided each call returns.
C19_RunProgressesToDone ==
    /\ [][\A r \in Runs :
             (Active(r) /\ pc'[r] # pc[r]) => Rank(pc'[r]) > Rank(pc[r])]_vars
    /\ \A r \in Runs : (pc[r] = "fetching") ~> (pc[r] = "done")

\* A run has gone through fetch, selection, post and update to Done.
C19_Witness ==
    /\ pc[1] = "done"
    /\ HasFetched(1)
    /\ chosen[1] # 0
    /\ apiCalls[1] = 1
    /\ writes[1] = 1

-----------------------------------------------------------------------------
(* The signer *)

\* A call of the signer after an earlier one.
Resigned == signed.n > 0 /\ signed'.n = signed.n + 1

\* C17: the signer is a function of its inputs: with method, URL, the four
\* credential parts, nonce and timestamp the same, a second call gives the
\* same signature and the same header, and with any one of them changed it
\* gives a different signature.
C17_SignatureTellsInputsApart ==
    [][Resigned =>
          /\ signed'.in = signed.in =>
                 /\ signed'.signature = signed.signature
                 /\ signed'.header = signed.header
          /\ signed'.in # signed.in =>
                 signed'.signature # signed.signature]_vars

\* The URL without its fragment and without its query.
StripQueryAndFragment(url) == Before(Before(url, "#"), "?")

\* The signing parameters and every entry of the URL's query, as [k, v].
SigningAndQuery(in) ==
    LET o  == OauthParams(in)
        ks == SortedKeys(o)
    IN  [i \in 1..Len(ks) |-> [k |-> ks[i], v |-> o[ks[i]]]]
            \o SearchParams(in.url)

RECURSIVE ByName(_, _)
\* The entries ordered by name, from the i-th name of KeyOrder on.
ByName(entries, i) ==
    IF i > Len(KeyOrder) THEN <<>>
    ELSE SelectSeq(entries, LAMBDA e : e.k = KeyOrder[i])
             \o ByName(entries, i + 1)

\* The parameter part the claim describes.
ParameterPart(in) ==
    LET es == ByName(SigningAndQuery(in), 1)
    IN  Join([i \in 1..Len(es) |->
                 percentEncode(<<es[i].k>>) \o <<"=">>
                     \o percentEncode(es[i].v)],
             <<"&">>)

\* The base string the claim describes; a URL without path is signed with
\* or without the path "/".
DescribedBaseStrings(in) ==
    {<<toUpperCase(in.method), "&">> \o percentEncode(u) \o <<"&">>
         \o percentEncode(ParameterPart(in)) :
        u \in {StripQueryAndFragment(in.url), UrlOriginPath(in.url)}}

\* C18: for every target URL the signature base string is built from the
\* URL without query and fragment, and its parameter part is the sorted
\* union of the signing parameters and every query parameter of the URL.
C18_BaseStringCoversQuery ==
    signed.n > 0 => signed.base \in DescribedBaseStrings(signed.in)

-----------------------------------------------------------------------------
(* Failures after the post, overlap and retry *)

\* The posting API accepted the post of run r and the script took it for a
\* success.
PostAccepted(r) ==
    apiCalls[r] > 0 /\ answer[r] # "rejected" /\ ~PostThrows(variant, answer[r])

\* C21: when the sheet update fails after the posting API accepted the
\* post, the run ends with an error and a non-zero exit code, the post and
\* the update are not tried again in that run, and the row's status in the
\* sheet is still pending.
C21_FailedUpdateLeavesPending ==
    \A r \in Runs :
        (result[r] = "updateerror" /\ PostAccepted(r)) =>
            /\ pc[r] = "done"
            /\ exit[r] # 0
            /\ apiCalls[r] = 1
            /\ writes[r] = 0
            /\ StoreStatus(sheet[chosen[r]]) = "pending"
            /\ sheet = snap[r]

\* The API accepted a post with an identifier, the update failed, and the
\* post is left without a record.
C21_Witness ==
    /\ result[1] = "updateerror"
    /\ answer[1] = "ok_id"
    /\ tweetId[1] # ""
    /\ writes[1] = 0
    /\ unrecorded[chosen[1]] = 1
    /\ StoreStatus(sheet[chosen[1]]) = "pending"

\* Two runs have fetched the same sheet, selected the same row and called
\* the posting API for it, and neither has written yet.
C22_Witness ==
    /\ chosen[1] # 0
    /\ chosen[2] = chosen[1]
    /\ snap[1] = sheet
    /\ snap[2] = sheet
    /\ apiCalls[1] = 1
    /\ apiCalls[2] = 1
    /\ writes[1] = 0
    /\ writes[2] = 0
    /\ calls[chosen[1]] = 2
    /\ accepted[chosen[1]] = 2
    /\ StoreStatus(sheet[chosen[1]]) = "pending"

\* C22: when two runs overlap on the same sheet nothing holds one of them
\* back because of the other: a second run can start while the first is
\* active, and a run that is about to fetch, to select or to post can do so
\* whatever the other run has done; so both can fetch before either writes,
\* select the same pending row and call the posting API for it.
C22_NothingHoldsARunBack ==
    /\ \A r \in Runs :
          /\ pc[r] = "fetching" => ENABLED Fetch(r)
          /\ pc[r] = "fetched" => ENABLED SelectRow(r)
          /\ pc[r] = "selected" => ENABLED Post(r)
    /\ (Active(1) /\ ~Active(2) /\ started < MaxRuns) => ENABLED Start(2)

\* The run before the current one dispatched row i and the posting API
\* rejected it; the current run has not posted yet.
RejectedBefore(i) ==
    started = 2 /\ calls[i] = 1 /\ accepted[i] = 0 /\ apiCalls[1] = 0

\* C23: after a failed dispatch the posting API is not called again in that
\* run, and the next run on the unchanged sheet selects the same row and
\* dispatches it again.
C23_FailedDispatchIsRetriedNextRun ==
    [][/\ \A r \in Runs :
             (result'[r] = "posterror" /\ result[r] # "posterror") =>
                 pc'[r] = "done" /\ apiCalls'[r] = 1
       /\ \A i \in 1..Len(sheet) :
             (RejectedBefore(i) /\ pc[1] = "fetched" /\ pc'[1] # "fetched") =>
                 chosen'[1] = i /\ pc'[1] = "selected"
       /\ \A i \in 1..Len(sheet) :
             (RejectedBefore(i) /\ pc[1] = "selected" /\ pc'[1] # "selected") =>
                 calls'[i] = 2]_vars

\* A second run has dispatched the row whose dispatch the first run saw
\* rejected.
C23_Witness ==
    /\ started = 2
    /\ chosen[1] # 0
    /\ calls[chosen[1]] = 2
    /\ accepted[chosen[1]] <= 1
    /\ apiCalls[1] = 1

\* Run r posts data row i in this step.
Posts(r, i) == apiCalls'[r] > apiCalls[r] /\ chosen[r] = i

\* C24: over runs one after the other, rows are posted in non-decreasing
\* order of scheduled instant: no row is posted while a pending eligible row
\* with a strictly earlier instant remains in the sheet.
C24_PostedInOrderOfInstant ==
    [][\A r \in Runs : \A i, j \in 1..Len(sheet) :
          (Posts(r, i) /\ Eligible(sheet[i], now[r])
                       /\ Eligible(sheet[j], now[r])) =>
              SpecInstant(sheet[i]).n <= SpecInstant(sheet[j]).n]_vars

\* A pending row whose date and time give no valid instant.
PendingWithoutInstant(row) ==
    StoreStatus(row) = "pending" /\ ~SpecInstant(row).ok

\* Run r is past its selection.
HasSelected(r) == HasFetched(r) /\ pc[r] # "fetched"

\* C25: a pending row whose date and time do not combine into a valid
\* instant is left out of the candidates without an error: the run goes on,
\* still dispatches the earliest of the eligible rows, and leaves that row
\* as it is.  Stated for sheets whose columns are spelled as the scripts
\* spell them.
C25_InvalidInstantIsPassedOver ==
    \A r \in Runs : \A k \in 1..Len(snap[r]) :
        (HasSelected(r) /\ PendingWithoutInstant(snap[r][k])
                        /\ "Publish Date" \in headers) =>
            /\ result[r] # "selecterror"
            /\ chosen[r] # k
            /\ sheet[k] = snap[r][k]
            /\ (\E j \in 1..Len(snap[r]) : Eligible(snap[r][j], now[r])) =>
                   /\ chosen[r] # 0
                   /\ Eligible(snap[r][chosen[r]], now[r])
                   /\ \A j \in 1..Len(snap[r]) :
                         Eligible(snap[r][j], now[r]) =>
                             SpecInstant(snap[r][chosen[r]]).n
                                 <= SpecInstant(snap[r][j]).n

-----------------------------------------------------------------------------
(* The row an update is addressed to *)

\* C26: the update of a run is addressed to the row the run selected and
\* posted: the sheet row number computed at fetch designates, when the write
\* is made, the row whose text was sent to the posting API; the write lands
\* on that row and on no other.
C26_UpdateAddressesSelectedRow ==
    [][\A r \in Runs :
          writes'[r] > writes[r] =>
              /\ chosen[r] \in 1..Len(sheet)
              /\ Target(r) = chosen[r]
              /\ PostText(variant, sheet[chosen[r]])
                     = PostText(variant, snap[r][chosen[r]])
              /\ Recorded(sheet'[chosen[r]])
              /\ \A j \in 1..Len(sheet) :
                    j # chosen[r] => sheet'[j] = sheet[j]]_vars

\* A run selected the second of two data rows, posted it and wrote its
\* status; the first row is untouched.
C26_Witness ==
    /\ Len(sheet) = 2
    /\ chosen[1] = 2
    /\ apiCalls[1] = 1
    /\ writes[1] = 1
    /\ Recorded(sheet[2])
    /\ ~Recorded(sheet[1])

-----------------------------------------------------------------------------
(* The environment of a run *)

\* C27: the fetch checks that the configured tab is among the tabs of the
\* spreadsheet before it reads any range: when the tab does not exist the
\* run fails with a tab-not-found error, and no range read, no post and no
\* update is made.
C27_MissingTabStopsBeforeRangeRead ==
    \A r \in Runs :
        (pc[r] = "done" /\ ~tabExists /\ missing = "none") =>
            /\ result[r] \in {"tabnotfound", "fetcherror"}
            /\ exit[r] # 0
            /\ reads[r].range = 0
            /\ apiCalls[r] = 0
            /\ writes[r] = 0

\* C28: a missing required setting or credential, of the sheet or of the
\* posting API, is found before anything is done: the run aborts with a
\* non-zero exit code before any sheet read, posting call or sheet update.
C28_MissingSettingStopsPreflight ==
    \A r \in Runs :
        (Active(r) \/ pc[r] = "done") /\ missing # "none" =>
            /\ reads[r] = NoReads
            /\ apiCalls[r] = 0
            /\ writes[r] = 0
            /\ pc[r] = "done" => result[r] = "configerror" /\ exit[r] # 0

====
